---- MODULE Spec2Model ----
(***************************************************************************)
(* Model of the GORM blog example (sql/gorm.go: User, Post, Comment and    *)
(* the hooks Post.AfterCreate and Comment.AfterDelete) and of the sqlx     *)
(* salary queries (getHighestPaidEmployee, getAllHighestPaidEmployees).    *)
(*                                                                         *)
(* Three specifications share the variables:                               *)
(*   Spec      the calls issued one at a time, each in its own default     *)
(*             transaction (create / delete of users, posts, comments);    *)
(*   SpecConc  sessions deleting comments concurrently, one statement of   *)
(*             a transaction per step;                                     *)
(*   SpecEmp   the two salary queries applied to an employees table.       *)
(***************************************************************************)
EXTENDS Integers, FiniteSets, Sequences

VARIABLES
    users,          \* table users:    ID -> [ArticleCount]
    posts,          \* table posts:    ID -> [UserID, CommentStatus]
    comments,       \* table comments: ID -> [PostID, UserID]
    nextUserID,     \* AUTO_INCREMENT of users.id
    nextPostID,     \* AUTO_INCREMENT of posts.id
    nextCommentID,  \* AUTO_INCREMENT of comments.id
    created,        \* history: user ID -> number of committed Post creations
    lastOp,         \* history: the last call, how it ended and, for a comment
                    \* deletion, the PostID the deleted row had in storage
    sess,           \* SpecConc: session -> the state of its delete transaction
    employees,      \* SpecEmp: table employees: ID -> salary
    topEarner,      \* SpecEmp: what getHighestPaidEmployee returned
    allTop          \* SpecEmp: what getAllHighestPaidEmployees returned

vars == <<users, posts, comments, nextUserID, nextPostID, nextCommentID,
          created, lastOp, sess, employees, topEarner, allTop>>

dbVars == <<users, posts, comments, nextUserID, nextPostID, nextCommentID,
            created, lastOp>>
empVars == <<employees, topEarner, allTop>>

----------------------------------------------------------------------------
(* Bounds of the model. *)

MaxUserID == 1
MaxPostID == 2
MaxCommentID == 2
NumSessions == 2
MaxEmployeeID == 3
MaxSalary == 3

----------------------------------------------------------------------------
(* The two values of posts.comment_status. *)

NoComments == "NoComments"      \* '无评论', the column default
HasComments == "HasComments"    \* '有评论'

(* Table helpers: a table is a function from the IDs of its rows. *)

InsertRow(t, id, row) == [k \in DOMAIN t \cup {id} |-> IF k = id THEN row ELSE t[k]]

DeleteRow(t, id) == [k \in DOMAIN t \ {id} |-> t[k]]

EmptyTable == [k \in {} |-> 0]

(* The database a transaction works on. *)
DB == [users |-> users, posts |-> posts, comments |-> comments]

NoOp == [kind |-> "none", post |-> 0, err |-> "ok"]

----------------------------------------------------------------------------
(* Hooks. *)

(* Fault variant of AfterCreate: Update("article_count", 1) without the     *)
(* gorm.Expr, which stores 1 instead of adding 1.                          *)
AfterCreateSetsOne(tx, p, fail) ==
    IF fail
    THEN [err |-> TRUE, db |-> tx]
    ELSE [err |-> FALSE,
          db |-> [tx EXCEPT !.users =
                    [u \in DOMAIN tx.users |->
                        IF u = p.UserID
                        THEN [tx.users[u] EXCEPT !.ArticleCount = 1]
                        ELSE tx.users[u]]]]

(* func (p *Post) AfterCreate(tx): UPDATE users SET article_count =         *)
(* article_count + 1 WHERE id = p.UserID; the backend's error, if any, is   *)
(* returned.  fail: the UPDATE fails.                                       *)
AfterCreate(tx, p, fail) ==
    IF fail
    THEN [err |-> TRUE, db |-> tx]
    ELSE [err |-> FALSE,
          db |-> [tx EXCEPT !.users =
                    [u \in DOMAIN tx.users |->
                        IF u = p.UserID
                        THEN [tx.users[u] EXCEPT !.ArticleCount = @ + 1]
                        ELSE tx.users[u]]]]

(* SELECT COUNT of the rows of comments WHERE post_id = postID. *)
CountComments(tbl, postID) == Cardinality({k \in DOMAIN tbl : tbl[k].PostID = postID})

(* newStatus: '有评论' unless the count is 0. *)
NewStatus(commentCount) == IF commentCount = 0 THEN NoComments ELSE HasComments

(* UPDATE posts SET comment_status = newStatus WHERE id = postID. *)
UpdateCommentStatus(tbl, postID, newStatus) ==
    [k \in DOMAIN tbl |-> IF k = postID
                          THEN [tbl[k] EXCEPT !.CommentStatus = newStatus]
                          ELSE tbl[k]]

(* func (c *Comment) AfterDelete(tx): the count for c.PostID, then the      *)
(* update of the post c.PostID. c is the value handed to Delete. fail:      *)
(* "count" or "update" when that statement fails, "none" otherwise.         *)
AfterDelete(tx, c, fail) ==
    LET commentCount == CountComments(tx.comments, c.PostID)
        newStatus == NewStatus(commentCount)
    IN  IF fail = "count" THEN [err |-> TRUE, db |-> tx]
        ELSE IF fail = "update" THEN [err |-> TRUE, db |-> tx]
        ELSE [err |-> FALSE,
              db |-> [tx EXCEPT !.posts =
                        UpdateCommentStatus(@, c.PostID, newStatus)]]

----------------------------------------------------------------------------
(* Foreign keys declared by the models and created by AutoMigrate. *)

(* posts.user_id -> users.id *)
PostFKOk(db, p) == p.UserID \in DOMAIN db.users

(* comments.post_id -> posts.id, comments.user_id -> users.id *)
CommentFKOk(db, c) == c.PostID \in DOMAIN db.posts /\ c.UserID \in DOMAIN db.users

(* A users row is referenced by a post or a comment. *)
UserReferenced(db, id) ==
    \/ \E k \in DOMAIN db.posts : db.posts[k].UserID = id
    \/ \E k \in DOMAIN db.comments : db.comments[k].UserID = id

(* Fault variant of PostReferenced: no constraint on comments.post_id. *)
PostReferencedNever(db, id) == FALSE

(* A posts row is referenced by a comment. *)
PostReferenced(db, id) == \E k \in DOMAIN db.comments : db.comments[k].PostID = id

----------------------------------------------------------------------------
(* The calls, each in GORM's default transaction: the statement, then the  *)
(* hook, then commit; any error rolls the transaction back.                *)

(* Fault variant of CreatePostTx: no enclosing transaction                 *)
(* (SkipDefaultTransaction), so a failed hook leaves the inserted row.     *)
CreatePostTxNoRollback(db, id, p, fail) ==
    IF ~PostFKOk(db, p) THEN [err |-> "fk", db |-> db]
    ELSE LET inserted == [db EXCEPT !.posts = InsertRow(@, id,
                                [UserID |-> p.UserID, CommentStatus |-> NoComments])]
             hook == AfterCreate(inserted, p, fail)
         IN  IF hook.err THEN [err |-> "hook", db |-> inserted]
             ELSE [err |-> "ok", db |-> hook.db]

(* db.Create(&post): INSERT, then Post.AfterCreate. The result is the      *)
(* database after the call and the error.                                  *)
CreatePostTx(db, id, p, fail) ==
    IF ~PostFKOk(db, p) THEN [err |-> "fk", db |-> db]
    ELSE LET inserted == [db EXCEPT !.posts = InsertRow(@, id,
                                [UserID |-> p.UserID, CommentStatus |-> NoComments])]
             hook == AfterCreate(inserted, p, fail)
         IN  IF hook.err THEN [err |-> "hook", db |-> db]
             ELSE [err |-> "ok", db |-> hook.db]

(* Fault variant of DeleteCommentTx: the hook runs before the DELETE (as a  *)
(* BeforeDelete hook would), so it counts the row being deleted.           *)
DeleteCommentTxHookFirst(db, c, fail) ==
    LET hook == AfterDelete(db, c, fail)
    IN  IF hook.err THEN [err |-> "hook", db |-> db]
        ELSE [err |-> "ok",
              db |-> [hook.db EXCEPT !.comments = DeleteRow(@, c.ID)]]

(* db.Delete(&comment): DELETE FROM comments WHERE id = c.ID, then          *)
(* Comment.AfterDelete on the value c.                                     *)
DeleteCommentTx(db, c, fail) ==
    LET deleted == [db EXCEPT !.comments = DeleteRow(@, c.ID)]
        hook == AfterDelete(deleted, c, fail)
    IN  IF hook.err THEN [err |-> "hook", db |-> db]
        ELSE [err |-> "ok", db |-> hook.db]

Commit(db) ==
    /\ users' = db.users
    /\ posts' = db.posts
    /\ comments' = db.comments

CreateUser ==
    /\ nextUserID <= MaxUserID
    /\ users' = InsertRow(users, nextUserID, [ArticleCount |-> 0])
    /\ nextUserID' = nextUserID + 1
    /\ created' = InsertRow(created, nextUserID, 0)
    /\ lastOp' = [kind |-> "CreateUser", post |-> 0, err |-> "ok"]
    /\ UNCHANGED <<posts, comments, nextPostID, nextCommentID, sess, empVars>>

CreatePost(userID, fail) ==
    /\ nextPostID <= MaxPostID
    /\ LET r == CreatePostTx(DB, nextPostID, [UserID |-> userID], fail)
       IN  /\ Commit(r.db)
           /\ created' = IF r.err = "ok"
                         THEN [created EXCEPT ![userID] = @ + 1]
                         ELSE created
           /\ lastOp' = [kind |-> "CreatePost", post |-> 0, err |-> r.err]
           /\ nextPostID' = IF r.err = "ok" THEN nextPostID + 1 ELSE nextPostID
    /\ UNCHANGED <<nextUserID, nextCommentID, sess, empVars>>

(* Fault variant of CreateComment: a create hook that marks the post. *)
CreateCommentWithHook(postID, userID) ==
    /\ nextCommentID <= MaxCommentID
    /\ LET c == [PostID |-> postID, UserID |-> userID]
       IN  /\ comments' = IF CommentFKOk(DB, c)
                          THEN InsertRow(comments, nextCommentID, c)
                          ELSE comments
           /\ posts' = IF CommentFKOk(DB, c)
                       THEN UpdateCommentStatus(posts, postID, HasComments)
                       ELSE posts
           /\ lastOp' = [kind |-> "CreateComment", post |-> 0,
                         err |-> IF CommentFKOk(DB, c) THEN "ok" ELSE "fk"]
           /\ nextCommentID' = IF CommentFKOk(DB, c)
                               THEN nextCommentID + 1 ELSE nextCommentID
    /\ UNCHANGED <<users, nextUserID, nextPostID, created, sess, empVars>>

(* db.Create(&comment): INSERT; Comment has no create hook. *)
CreateComment(postID, userID) ==
    /\ nextCommentID <= MaxCommentID
    /\ LET c == [PostID |-> postID, UserID |-> userID]
       IN  /\ comments' = IF CommentFKOk(DB, c)
                          THEN InsertRow(comments, nextCommentID, c)
                          ELSE comments
           /\ lastOp' = [kind |-> "CreateComment", post |-> 0,
                         err |-> IF CommentFKOk(DB, c) THEN "ok" ELSE "fk"]
           /\ nextCommentID' = IF CommentFKOk(DB, c)
                               THEN nextCommentID + 1 ELSE nextCommentID
    /\ UNCHANGED <<users, posts, nextUserID, nextPostID, created, sess, empVars>>

(* db.Delete(&c) for a Comment value c = [ID, PostID]. *)
DeleteCommentCall(kind, c, fail) ==
    LET r == DeleteCommentTx(DB, c, fail)
    IN  /\ Commit(r.db)
        /\ lastOp' = [kind |-> kind,
                      post |-> IF c.ID \in DOMAIN comments
                              THEN comments[c.ID].PostID ELSE 0,
                      err |-> r.err]
        /\ UNCHANGED <<nextUserID, nextPostID, nextCommentID, created, sess, empVars>>

(* main: db.First(&comment) then db.Delete(&comment): the value is the row. *)
DeleteLoadedComment(id, fail) ==
    /\ id \in DOMAIN comments
    /\ DeleteCommentCall("DeleteLoadedComment",
                         [ID |-> id, PostID |-> comments[id].PostID], fail)

(* db.Delete(&Comment{ID: id, PostID: postID}): the value is the caller's. *)
DeleteCommentValue(id, postID, fail) ==
    DeleteCommentCall("DeleteCommentValue", [ID |-> id, PostID |-> postID], fail)

(* db.Delete(&Post{ID: id}): Post has no delete hook. *)
DeletePost(id) ==
    /\ posts' = IF PostReferenced(DB, id) THEN posts ELSE DeleteRow(posts, id)
    /\ lastOp' = [kind |-> "DeletePost", post |-> 0,
                  err |-> IF PostReferenced(DB, id) THEN "fk" ELSE "ok"]
    /\ UNCHANGED <<users, comments, nextUserID, nextPostID, nextCommentID,
                   created, sess, empVars>>

(* db.Delete(&User{ID: id}): User has no delete hook. *)
DeleteUser(id) ==
    /\ users' = IF UserReferenced(DB, id) THEN users ELSE DeleteRow(users, id)
    /\ lastOp' = [kind |-> "DeleteUser", post |-> 0,
                  err |-> IF UserReferenced(DB, id) THEN "fk" ELSE "ok"]
    /\ UNCHANGED <<posts, comments, nextUserID, nextPostID, nextCommentID,
                   created, sess, empVars>>

Init ==
    /\ users = EmptyTable
    /\ posts = EmptyTable
    /\ comments = EmptyTable
    /\ nextUserID = 1
    /\ nextPostID = 1
    /\ nextCommentID = 1
    /\ created = EmptyTable
    /\ lastOp = NoOp
    /\ sess = EmptyTable
    /\ employees = EmptyTable
    /\ topEarner = [called |-> FALSE]
    /\ allTop = [called |-> FALSE]

Next ==
    \/ CreateUser
    \/ \E u \in 0..MaxUserID, fail \in BOOLEAN : CreatePost(u, fail)
    \/ \E p \in 0..MaxPostID, u \in 0..MaxUserID : CreateComment(p, u)
    \/ \E id \in 1..MaxCommentID, fail \in {"none", "count", "update"} :
            DeleteLoadedComment(id, fail)
    \/ \E id \in 1..MaxCommentID, p \in 0..MaxPostID,
          fail \in {"none", "count", "update"} : DeleteCommentValue(id, p, fail)
    \/ \E id \in 1..MaxPostID : DeletePost(id)
    \/ \E id \in 1..MaxUserID : DeleteUser(id)

Spec == Init /\ [][Next]_vars

----------------------------------------------------------------------------
(* Concurrent comment deletions: each session runs db.Delete(&comment) in  *)
(* its own transaction, one statement per step. The hook's count is a      *)
(* plain (non-locking) read: it sees the committed rows and the session's  *)
(* own delete, not the uncommitted deletes of other sessions. DELETE and   *)
(* UPDATE take the row's lock, held until the transaction ends.            *)

Sessions == 1..NumSessions

Idle == [pc |-> "idle", c |-> [ID |-> 0, PostID |-> 0], deleted |-> FALSE,
         commentCount |-> 0]

(* The session holds the lock of comments row id (it deleted the row). *)
HoldsCommentRow(s, id) ==
    /\ sess[s].pc \in {"count", "update", "commit"}
    /\ sess[s].deleted
    /\ sess[s].c.ID = id

(* The session holds the lock of posts row id (it updated the row). *)
HoldsPostRow(s, id) ==
    /\ sess[s].pc = "commit"
    /\ sess[s].c.PostID = id
    /\ id \in DOMAIN posts

(* The comments rows the session's transaction reads. *)
VisibleComments(s) ==
    IF sess[s].deleted THEN DeleteRow(comments, sess[s].c.ID) ELSE comments

(* main: db.First(&comment) loads a row; db.Delete(&comment) begins. *)
Begin(s, id) ==
    /\ sess[s].pc = "idle"
    /\ id \in DOMAIN comments
    /\ sess' = [sess EXCEPT ![s] = [pc |-> "delete",
                                    c |-> [ID |-> id, PostID |-> comments[id].PostID],
                                    deleted |-> FALSE, commentCount |-> 0]]
    /\ UNCHANGED <<dbVars, empVars>>

(* DELETE FROM comments WHERE id = c.ID: waits for the row's lock. *)
TxDelete(s) ==
    /\ sess[s].pc = "delete"
    /\ \A t \in Sessions \ {s} : ~HoldsCommentRow(t, sess[s].c.ID)
    /\ sess' = [sess EXCEPT ![s].pc = "count",
                            ![s].deleted = sess[s].c.ID \in DOMAIN comments]
    /\ UNCHANGED <<dbVars, empVars>>

(* AfterDelete: the count for c.PostID. *)
TxCount(s) ==
    /\ sess[s].pc = "count"
    /\ sess' = [sess EXCEPT ![s].pc = "update",
                            ![s].commentCount =
                                CountComments(VisibleComments(s), sess[s].c.PostID)]
    /\ UNCHANGED <<dbVars, empVars>>

(* AfterDelete: the update of the post, which waits for the row's lock. *)
TxUpdate(s) ==
    /\ sess[s].pc = "update"
    /\ \A t \in Sessions \ {s} : ~HoldsPostRow(t, sess[s].c.PostID)
    /\ sess' = [sess EXCEPT ![s].pc = "commit"]
    /\ UNCHANGED <<dbVars, empVars>>

(* AfterDelete returns nil: the transaction commits its delete and update. *)
TxCommit(s) ==
    /\ sess[s].pc = "commit"
    /\ comments' = VisibleComments(s)
    /\ posts' = UpdateCommentStatus(posts, sess[s].c.PostID,
                                    NewStatus(sess[s].commentCount))
    /\ sess' = [sess EXCEPT ![s].pc = "done"]
    /\ UNCHANGED <<users, nextUserID, nextPostID, nextCommentID, created, lastOp,
                   empVars>>

(* One user owning MaxPostID posts, with comments on them and every        *)
(* comment_status agreeing with the comments.                              *)
InitConc ==
    /\ users = [u \in {1} |-> [ArticleCount |-> MaxPostID]]
    /\ created = [u \in {1} |-> MaxPostID]
    /\ \E n \in 1..MaxCommentID :
        \E on \in [1..n -> 1..MaxPostID] :
            /\ comments = [k \in 1..n |-> [PostID |-> on[k], UserID |-> 1]]
            /\ posts = [p \in 1..MaxPostID |->
                            [UserID |-> 1,
                             CommentStatus |-> IF \E k \in 1..n : on[k] = p
                                               THEN HasComments ELSE NoComments]]
            /\ nextCommentID = n + 1
    /\ nextUserID = 2
    /\ nextPostID = MaxPostID + 1
    /\ lastOp = NoOp
    /\ sess = [s \in Sessions |-> Idle]
    /\ employees = EmptyTable
    /\ topEarner = [called |-> FALSE]
    /\ allTop = [called |-> FALSE]

NextConc ==
    \/ \E s \in Sessions, id \in 1..MaxCommentID : Begin(s, id)
    \/ \E s \in Sessions : TxDelete(s)
    \/ \E s \in Sessions : TxCount(s)
    \/ \E s \in Sessions : TxUpdate(s)
    \/ \E s \in Sessions : TxCommit(s)

SpecConc == InitConc /\ [][NextConc]_vars

----------------------------------------------------------------------------
(* The salary queries over table employees (ID -> salary). *)

Row(tbl, id) == [ID |-> id, Salary |-> tbl[id]]

(* Fault variant of OrderBySalaryDesc: ORDER BY salary without DESC. *)
OrderBySalaryAsc(tbl) ==
    LET n == Cardinality(DOMAIN tbl)
    IN  {f \in [1..n -> DOMAIN tbl] :
            /\ \A i, j \in 1..n : i # j => f[i] # f[j]
            /\ \A i \in 1..n : i < n => tbl[f[i]] <= tbl[f[i + 1]]}

(* The orders ORDER BY salary DESC may return the rows in: every           *)
(* arrangement of the rows with the salaries not increasing.               *)
OrderBySalaryDesc(tbl) ==
    LET n == Cardinality(DOMAIN tbl)
    IN  {f \in [1..n -> DOMAIN tbl] :
            /\ \A i, j \in 1..n : i # j => f[i] # f[j]
            /\ \A i \in 1..n : i < n => tbl[f[i]] >= tbl[f[i + 1]]}

RECURSIVE MaxSalaryOf(_, _)
(* SELECT MAX(salary) over the rows ids of tbl; 0 stands for NULL. *)
MaxSalaryOf(tbl, ids) ==
    IF ids = {} THEN 0
    ELSE LET id == CHOOSE x \in ids : TRUE
             rest == MaxSalaryOf(tbl, ids \ {id})
         IN  IF tbl[id] > rest THEN tbl[id] ELSE rest

(* getHighestPaidEmployee: ORDER BY salary DESC LIMIT 1 into one Employee; *)
(* db.Get fails on an empty result. The set of the results it may return.  *)
getHighestPaidEmployee(tbl) ==
    IF DOMAIN tbl = {}
    THEN {[called |-> TRUE, err |-> TRUE]}
    ELSE {[called |-> TRUE, err |-> FALSE, row |-> Row(tbl, f[1])] :
            f \in OrderBySalaryDesc(tbl)}

(* getAllHighestPaidEmployees: WHERE salary = (SELECT MAX(salary) ...).     *)
getAllHighestPaidEmployees(tbl) ==
    [called |-> TRUE, err |-> FALSE,
     rows |-> {Row(tbl, id) : id \in {k \in DOMAIN tbl :
                                        tbl[k] = MaxSalaryOf(tbl, DOMAIN tbl)}}]

CallGetHighestPaidEmployee ==
    /\ topEarner' \in getHighestPaidEmployee(employees)
    /\ UNCHANGED <<dbVars, sess, employees, allTop>>

CallGetAllHighestPaidEmployees ==
    /\ allTop' = getAllHighestPaidEmployees(employees)
    /\ UNCHANGED <<dbVars, sess, employees, topEarner>>

InitEmp ==
    /\ users = EmptyTable
    /\ posts = EmptyTable
    /\ comments = EmptyTable
    /\ nextUserID = 1
    /\ nextPostID = 1
    /\ nextCommentID = 1
    /\ created = EmptyTable
    /\ lastOp = NoOp
    /\ sess = EmptyTable
    /\ \E ids \in SUBSET (1..MaxEmployeeID) :
            employees \in [ids -> 1..MaxSalary]
    /\ topEarner = [called |-> FALSE]
    /\ allTop = [called |-> FALSE]

NextEmp ==
    \/ CallGetHighestPaidEmployee
    \/ CallGetAllHighestPaidEmployees

SpecEmp == InitEmp /\ [][NextEmp]_vars

----------------------------------------------------------------------------
(* Properties. *)

(* The posts row p is referenced by a row of comments. *)
HasCommentRows(p) == \E k \in DOMAIN comments : comments[k].PostID = p

(* The comment_status that agrees with the comments of p. *)
StatusFor(p) == IF HasCommentRows(p) THEN HasComments ELSE NoComments

CommentDeletions == {"DeleteLoadedComment", "DeleteCommentValue"}

\* C1: after every committed mutation, each user's article_count is the
\* number of posts rows whose UserID is that user's ID.
C1_ArticleCountEqualsPosts ==
    \A u \in DOMAIN users :
        users[u].ArticleCount = Cardinality({p \in DOMAIN posts : posts[p].UserID = u})

\* C2: after every committed mutation, each post's comment_status is
\* HasComments if and only if a comment references the post, NoComments
\* otherwise (so the first comment created on a post leaves it HasComments).
C2_StatusIffComments ==
    \A p \in DOMAIN posts : posts[p].CommentStatus = StatusFor(p)

\* C3: a user's article_count is the number N of Post creations committed
\* with that user's ID since the user was created (each creation adds 1).
C3_CountEqualsCreations ==
    \A u \in DOMAIN users : users[u].ArticleCount = created[u]

\* C3 witness: a user with two committed Post creations.
C3_TwoCreations ==
    \E u \in DOMAIN users : created[u] = 2 /\ lastOp.kind = "CreatePost"

C5_FailedCreateRollsBack ==
    [][(lastOp'.kind = "CreatePost" /\ lastOp'.err = "hook")
            => (posts' = posts /\ users' = users)]_vars

\* C5 witness: a Post creation has just failed in its hook.
C5_HookFailed ==
    /\ lastOp.kind = "CreatePost"
    /\ lastOp.err = "hook"
    /\ DOMAIN users # {}

\* C6: once every concurrent comment deletion has committed, each post is
\* HasComments if and only if a comment still references it.
C6_StatusAfterConcurrentDeletions ==
    (\A s \in DOMAIN sess : sess[s].pc = "done")
        => \A p \in DOMAIN posts : posts[p].CommentStatus = StatusFor(p)

\* C7: after every committed mutation, every post's UserID is an existing
\* user and every comment's PostID and UserID are an existing post and an
\* existing user.
C7_ReferentialIntegrity ==
    /\ \A p \in DOMAIN posts : posts[p].UserID \in DOMAIN users
    /\ \A k \in DOMAIN comments :
            /\ comments[k].PostID \in DOMAIN posts
            /\ comments[k].UserID \in DOMAIN users

\* C7 witness: the deletion of a post that still has comments has just been
\* asked for (and refused by the constraint).
C7_DeleteOfCommentedPost ==
    /\ lastOp.kind = "DeletePost"
    /\ lastOp.err = "fk"
    /\ \E p \in DOMAIN posts : HasCommentRows(p)

(* The rows of employees with the maximum salary. *)
TiedForMax ==
    {Row(employees, i) : i \in {k \in DOMAIN employees :
                                    \A j \in DOMAIN employees :
                                        employees[j] <= employees[k]}}

\* C8: on a non-empty employees table, getAllHighestPaidEmployees returns
\* exactly the rows with the maximum salary and getHighestPaidEmployee
\* returns one row, which is one of them.
C8_HighestPaid ==
    DOMAIN employees # {}
        => /\ allTop.called => (~allTop.err /\ allTop.rows = TiedForMax)
           /\ topEarner.called => (~topEarner.err /\ topEarner.row \in TiedForMax)

\* C8 witness: both queries have answered on a table with a tie for the
\* maximum salary.
C8_TieAnswered ==
    /\ allTop.called
    /\ topEarner.called
    /\ Cardinality(TiedForMax) >= 2

\* C9: a Comment creation, a Post deletion and a User deletion leave the
\* article_count of every surviving user and the comment_status of every
\* surviving post unchanged.
C9_NoTriggerFrame ==
    [][lastOp'.kind \in {"CreateComment", "DeletePost", "DeleteUser"}
            => /\ \A u \in DOMAIN users \cap DOMAIN users' :
                    users'[u].ArticleCount = users[u].ArticleCount
               /\ \A p \in DOMAIN posts \cap DOMAIN posts' :
                    posts'[p].CommentStatus = posts[p].CommentStatus]_vars

\* C9 witness: a comment has just been created on a post, which is still
\* NoComments.
C9_CommentCreated ==
    /\ lastOp.kind = "CreateComment"
    /\ lastOp.err = "ok"
    /\ \E k \in DOMAIN comments :
            posts[comments[k].PostID].CommentStatus = NoComments

\* C10: a deletion that removes a comment row changes the comment_status of
\* no post other than the one the removed row referenced, and no user's
\* article_count, whatever PostID the value handed to Delete carries.
C10_DeletionTouchesOnlyItsPost ==
    [][(lastOp'.kind \in CommentDeletions /\ lastOp'.post # 0)
            => /\ users' = users
               /\ \A p \in DOMAIN posts :
                    p # lastOp'.post => posts'[p] = posts[p]]_vars

====
